---- MODULE Spec2Model ----
(***************************************************************************)
(* A model of OpenAPIValidator (src/src/validation.ts): the registry of    *)
(* compiled Ajv validators built by the constructor, and the two calls     *)
(* validateRequest and validateResponse.  The OpenAPIRouter, Ajv and       *)
(* JSON.parse are collaborators of the class: they are modelled by what    *)
(* the class asks of them.                                                 *)
(***************************************************************************)
EXTENDS Naturals, Sequences, FiniteSets, TLC

VARIABLES definition, ajvOpts, requestValidators, responseValidators,
          pc, call, parameters, ran, result

vars == <<definition, ajvOpts, requestValidators, responseValidators,
          pc, call, parameters, ran, result>>

----
(* Bounds of the model. *)

\* the longest parameter list of an operation
MaxParams == 2
\* the most entries of an operation's responses map
MaxResponses == 2

----
(* JavaScript values.  A value is a record of the same shape whatever its  *)
(* type: t is the type tag, text the content of a string or the digits of  *)
(* a number, props the own properties of an object, items the elements of  *)
(* an array.                                                               *)

NoProps == [k \in {} |-> 0]

Undefined == [t |-> "undefined", text |-> "", props |-> NoProps, items |-> <<>>]
Null == [t |-> "null", text |-> "", props |-> NoProps, items |-> <<>>]
Str(text) == [t |-> "string", text |-> text, props |-> NoProps, items |-> <<>>]
Num(text) == [t |-> "number", text |-> text, props |-> NoProps, items |-> <<>>]
Obj(props) == [t |-> "object", text |-> "", props |-> props, items |-> <<>>]
Arr(items) == [t |-> "array", text |-> "", props |-> NoProps, items |-> items]

\* _.isNil(v)
IsNil(v) == v.t \in {"undefined", "null"}

\* typeof v
TypeOf(v) ==
  CASE v.t = "undefined" -> "undefined"
    [] v.t \in {"null", "object", "array"} -> "object"
    [] v.t = "string" -> "string"
    [] OTHER -> "number"

\* v[k] of an object: undefined when v has no such property
Get(v, k) == IF k \in DOMAIN v.props THEN v.props[k] ELSE Undefined

\* v[k] = x
Put(v, k, x) ==
  Obj([n \in DOMAIN v.props \cup {k} |-> IF n = k THEN x ELSE v.props[n]])

\* the strings that read as an integer
IntegerStrings == {"1", "7"}

\* JSON.parse(text): the parsed value, or the failure and its message
JSONParse(text) ==
  CASE text = "{\"name\":\"rex\"}" ->
         [ok |-> TRUE, value |-> Obj([k \in {"name"} |-> Str("rex")]), message |-> ""]
    [] text = "{}" -> [ok |-> TRUE, value |-> Obj(NoProps), message |-> ""]
    [] text = "null" -> [ok |-> TRUE, value |-> Null, message |-> ""]
    [] text \in IntegerStrings -> [ok |-> TRUE, value |-> Num(text), message |-> ""]
    [] text = "" -> [ok |-> FALSE, value |-> Undefined,
                     message |-> "Unexpected end of JSON input"]
    [] text = "{bad" -> [ok |-> FALSE, value |-> Undefined,
                         message |-> "Unexpected token b in JSON at position 1"]
    [] OTHER -> [ok |-> FALSE, value |-> Undefined,
                 message |-> "Unexpected token in JSON at position 0"]

\* `${req.body}` of a body that is not an object
TemplateString(v) == IF v.t = "undefined" THEN "undefined" ELSE v.text

----
(* Errors.  An Ajv.ErrorObject; dataPath and schemaPath are kept as the    *)
(* sequence of their segments ('' is <<>>, '#/requestBody' is              *)
(* <<"#", "requestBody">>), message as the text and what it names.         *)

ErrorObject(keyword, dataPath, schemaPath, message) ==
  [keyword |-> keyword, dataPath |-> dataPath, schemaPath |-> schemaPath,
   message |-> message]

----
(* JSON Schemas.  A schema is a record of the same shape whatever its      *)
(* keywords: type ("any" when it has none), properties as the sequence of  *)
(* [name, schema] in insertion order, required, additionalProperties and   *)
(* oneOf (<<>> when it has none).                                          *)

SchemaObject(type, properties, required, additionalProperties, oneOf) ==
  [type |-> type, properties |-> properties, required |-> required,
   additionalProperties |-> additionalProperties, oneOf |-> oneOf]

\* { type: <type> }
TypeSchema(type) == SchemaObject(type, <<>>, <<>>, TRUE, <<>>)

\* { type: 'object', required: <required> }
ObjectSchema(required) == SchemaObject("object", <<>>, required, TRUE, <<>>)

Property(name, schema) == [name |-> name, schema |-> schema]

\* the names of a properties sequence
PropertyNames(properties) == {properties[i].name : i \in 1..Len(properties)}

\* Ajv's type check of `v` against `type`; with coerceTypes: true a scalar
\* that converts to the type passes, an array never converts nor is made
TypeMatches(type, v, coerceTypes) ==
  CASE type = "any" -> TRUE
    [] type = "object" -> v.t = "object"
    [] type = "array" -> v.t = "array"
    [] type = "string" -> \/ v.t = "string"
                          \/ coerceTypes /\ v.t \in {"number", "null"}
    [] type = "integer" -> \/ v.t = "number"
                           \/ coerceTypes /\ v.t = "string" /\ v.text \in IntegerStrings
                           \/ coerceTypes /\ v.t = "null"
    [] OTHER -> FALSE

\* the first i for which errs[i] is not empty, 0 when there is none
FirstFailing(errs) ==
  IF \E i \in 1..Len(errs) : errs[i] # <<>>
  THEN CHOOSE i \in 1..Len(errs) : errs[i] # <<>> /\ \A j \in 1..(i - 1) : errs[j] = <<>>
  ELSE 0

RECURSIVE ValidationErrors(_, _, _, _, _)
\* validate(v) of a validator compiled from `schema`: validate.errors, <<>>
\* for null.  Ajv returns at the first failing keyword (allErrors is off);
\* the keywords of an object run as required, additionalProperties, then
\* each property present; oneOf keeps the errors of the branches that failed
ValidationErrors(schema, v, coerceTypes, dataPath, schemaPath) ==
  LET missing == SelectSeq(schema.required, LAMBDA k : Get(v, k).t = "undefined")
      extra == {k \in DOMAIN v.props : k \notin PropertyNames(schema.properties)}
      inner == [i \in 1..Len(schema.properties) |->
                  IF Get(v, schema.properties[i].name).t = "undefined" THEN <<>>
                  ELSE ValidationErrors(schema.properties[i].schema,
                                        Get(v, schema.properties[i].name), coerceTypes,
                                        dataPath \o <<schema.properties[i].name>>,
                                        schemaPath \o <<"properties", schema.properties[i].name>>)]
      branch == [i \in 1..Len(schema.oneOf) |->
                   ValidationErrors(schema.oneOf[i], v, coerceTypes, dataPath,
                                    schemaPath \o <<"oneOf", ToString(i - 1)>>)]
      passing == {i \in 1..Len(schema.oneOf) : branch[i] = <<>>}
      \* the branches Ajv evaluates: up to the second one that passes
      seen == {i \in 1..Len(schema.oneOf) :
                 Cardinality({j \in passing : j < i}) < 2}
      failed == SelectSeq([i \in 1..Len(schema.oneOf) |-> i],
                          LAMBDA i : i \in seen /\ i \notin passing)
      RECURSIVE Flatten(_)
      Flatten(is) == IF is = <<>> THEN <<>> ELSE branch[Head(is)] \o Flatten(Tail(is))
  IN
  IF ~TypeMatches(schema.type, v, coerceTypes)
  THEN <<ErrorObject("type", dataPath, schemaPath \o <<"type">>,
                     <<"should be", schema.type>>)>>
  ELSE IF v.t = "object" /\ missing # <<>>
  THEN <<ErrorObject("required", dataPath, schemaPath \o <<"required">>,
                     <<"should have required property", Head(missing)>>)>>
  ELSE IF v.t = "object" /\ ~schema.additionalProperties /\ extra # {}
  THEN <<ErrorObject("additionalProperties", dataPath,
                     schemaPath \o <<"additionalProperties">>,
                     <<"should NOT have additional properties">>)>>
  ELSE IF v.t = "object" /\ FirstFailing(inner) # 0
  THEN inner[FirstFailing(inner)]
  ELSE IF schema.oneOf # <<>> /\ Cardinality(passing) # 1
  THEN Flatten(failed) \o
       <<ErrorObject("oneOf", dataPath, schemaPath \o <<"oneOf">>,
                     <<"should match exactly one schema in oneOf">>)>>
  ELSE <<>>

\* new Ajv(opts).compile(schema): the validate function, whose property
\* errors holds what its last call found, <<>> for null
Compile(opts, schema) ==
  [schema |-> schema, coerceTypes |-> opts.coerceTypes, errors |-> <<>>]

\* the same with the errors of an earlier call left in place when the data
\* is valid
ValidateKeepingErrors(validator, data) ==
  LET found == ValidationErrors(validator.schema, data, validator.coerceTypes,
                                <<>>, <<"#">>)
  IN IF found = <<>> THEN validator.errors ELSE found

\* validate(data); validate.errors: every call of validate sets errors anew,
\* whatever an earlier call left there
Validate(validator, data) ==
  ValidationErrors(validator.schema, data, validator.coerceTypes, <<>>, <<"#">>)

\* the validate function after validate(data)
Called(validator, data) == [validator EXCEPT !.errors = Validate(validator, data)]

----
(* Operations, as the Router hands them over: dereferenced.                *)

Parameter(name, in, required, schema) ==
  [name |-> name, in |-> in, required |-> required, schema |-> schema]

\* one media type of a content map; its schema, when it has one
MediaType(mediaType, hasSchema, schema) ==
  [mediaType |-> mediaType, hasSchema |-> hasSchema, schema |-> schema]

\* a requestBody: whether the operation has one, and its content map as the
\* sequence of its entries in key order
RequestBody(declared, content) == [declared |-> declared, content |-> content]

\* one entry of a responses map
Response(status, content) == [status |-> status, content |-> content]

\* a responses map: whether the operation has one, and its entries
Responses(declared, entries) == [declared |-> declared, entries |-> entries]

\* an operation that has no operationId carries this in its place
NoOperationId == "<undefined>"

Operation(operationId, params, requestBody, responses) ==
  [operationId |-> operationId, parameters |-> params,
   requestBody |-> requestBody, responses |-> responses]

\* !operation.operationId
HasNoOperationId(operation) == operation.operationId \in {NoOperationId, ""}

\* the key an operationId makes in a registry object
RegistryKey(operationId) ==
  IF operationId = NoOperationId THEN "undefined" ELSE operationId

\* content['application/json'], <<>> when the map has no such key
JsonContent(content) ==
  SelectSeq(content, LAMBDA m : m.mediaType = "application/json")

----
(* The constructor: the registry of compiled validators.                   *)

\* the same with requestBody never made required
RequestBodyValidatorsNeverRequired(opts, operation) ==
  LET jsonbody == JsonContent(operation.requestBody.content)
      requestBodySchema ==
        SchemaObject("object", <<Property("requestBody", jsonbody[1].schema)>>,
                     <<>>, TRUE, <<>>)
  IN IF operation.requestBody.declared /\ jsonbody # <<>> /\ jsonbody[1].hasSchema
     THEN <<Compile(opts, requestBodySchema)>>
     ELSE <<>>

\* the body validator of an operation, <<>> when it gets none
RequestBodyValidators(opts, operation) ==
  LET jsonbody == JsonContent(operation.requestBody.content)
      requestBodySchema ==
        SchemaObject("object",
                     <<Property("requestBody", jsonbody[1].schema)>>,
                     IF Len(operation.requestBody.content) = 1
                     THEN <<"requestBody">> ELSE <<>>,
                     TRUE, <<>>)
  IN IF operation.requestBody.declared /\ jsonbody # <<>> /\ jsonbody[1].hasSchema
     THEN <<Compile(opts, requestBodySchema)>>
     ELSE <<>>

\* the same with the header location closed to undeclared keys
ParamsSkeletonClosedHeaders ==
  SchemaObject("object",
               <<Property("path", SchemaObject("object", <<>>, <<>>, FALSE, <<>>)),
                 Property("query", SchemaObject("object", <<>>, <<>>, FALSE, <<>>)),
                 Property("header", SchemaObject("object", <<>>, <<>>, FALSE, <<>>)),
                 Property("cookie", SchemaObject("object", <<>>, <<>>, TRUE, <<>>))>>,
               <<>>, TRUE, <<>>)

\* the same with the query location open to undeclared keys
ParamsSkeletonOpenQuery ==
  SchemaObject("object",
               <<Property("path", SchemaObject("object", <<>>, <<>>, FALSE, <<>>)),
                 Property("query", SchemaObject("object", <<>>, <<>>, TRUE, <<>>)),
                 Property("header", SchemaObject("object", <<>>, <<>>, TRUE, <<>>)),
                 Property("cookie", SchemaObject("object", <<>>, <<>>, TRUE, <<>>))>>,
               <<>>, TRUE, <<>>)

\* the skeleton of the parameters schema
ParamsSkeleton ==
  SchemaObject("object",
               <<Property("path", SchemaObject("object", <<>>, <<>>, FALSE, <<>>)),
                 Property("query", SchemaObject("object", <<>>, <<>>, FALSE, <<>>)),
                 Property("header", SchemaObject("object", <<>>, <<>>, TRUE, <<>>)),
                 Property("cookie", SchemaObject("object", <<>>, <<>>, TRUE, <<>>))>>,
               <<>>, TRUE, <<>>)

\* the index of properties[name], 0 when there is none
PropertyIndex(properties, name) ==
  IF name \in PropertyNames(properties)
  THEN CHOOSE i \in 1..Len(properties) : properties[i].name = name
  ELSE 0

\* _.uniq([...required, x])
AppendUniq(required, x) ==
  IF \E i \in 1..Len(required) : required[i] = x THEN required ELSE Append(required, x)

\* properties[name] = schema
SetProperty(properties, name, schema) ==
  IF PropertyIndex(properties, name) = 0
  THEN Append(properties, Property(name, schema))
  ELSE [properties EXCEPT ![PropertyIndex(properties, name)].schema = schema]

\* the same with the location made required whatever the parameter says
AddParameterLocationRequired(paramsSchema, param) ==
  LET i == PropertyIndex(paramsSchema.properties, param.in)
      target == paramsSchema.properties[i].schema
      withRequired ==
        IF param.required
        THEN [target EXCEPT !.required = Append(@, param.name)]
        ELSE target
      withProperty ==
        [withRequired EXCEPT !.properties = SetProperty(@, param.name, param.schema)]
  IN [paramsSchema EXCEPT
        !.properties[i].schema = withProperty,
        !.required = AppendUniq(@, param.in)]

\* one turn of parameters.map: `param` put into its location of paramsSchema
AddParameter(paramsSchema, param) ==
  LET i == PropertyIndex(paramsSchema.properties, param.in)
      target == paramsSchema.properties[i].schema
      withRequired ==
        IF param.required
        THEN [target EXCEPT !.required = Append(@, param.name)]
        ELSE target
      withProperty ==
        [withRequired EXCEPT !.properties = SetProperty(@, param.name, param.schema)]
  IN [paramsSchema EXCEPT
        !.properties[i].schema = withProperty,
        !.required = IF param.required THEN AppendUniq(@, param.in) ELSE @]

RECURSIVE AddParameters(_, _)
\* parameters.map(...) over the operation's parameters, in order
AddParameters(paramsSchema, params) ==
  IF params = <<>> THEN paramsSchema
  ELSE AddParameters(AddParameter(paramsSchema, Head(params)), Tail(params))

\* the same compiled with the options as they are
ParamsValidatorWithOptions(opts, operation) ==
  Compile(opts, AddParameters(ParamsSkeleton, operation.parameters))

\* the parameter validator of an operation: it coerces types whatever the
\* options say
ParamsValidator(opts, operation) ==
  Compile([opts EXCEPT !.coerceTypes = TRUE],
          AddParameters(ParamsSkeleton, operation.parameters))

\* the same with the parameter validator pushed first
BuildRequestValidatorsParamsFirst(registry, opts, operation) ==
  LET key == RegistryKey(operation.operationId)
      validators == <<ParamsValidator(opts, operation)>>
                    \o RequestBodyValidators(opts, operation)
  IN [k \in DOMAIN registry \cup {key} |-> IF k = key THEN validators ELSE registry[k]]

\* requestValidators after buildRequestValidatorsForOperation(operation)
BuildRequestValidatorsForOperation(registry, opts, operation) ==
  LET key == RegistryKey(operation.operationId)
      validators == RequestBodyValidators(opts, operation)
                    \o <<ParamsValidator(opts, operation)>>
  IN [k \in DOMAIN registry \cup {key} |-> IF k = key THEN validators ELSE registry[k]]

\* the same without the test of the schema: every application/json content
ResponseSchemasOfAnyContent(operation) ==
  LET withJson == SelectSeq(operation.responses.entries,
                            LAMBDA r : JsonContent(r.content) # <<>>)
  IN [i \in 1..Len(withJson) |-> JsonContent(withJson[i].content)[1].schema]

\* the schemas buildResponseValidatorForOperation collects, in key order
ResponseSchemas(operation) ==
  LET withSchema == SelectSeq(operation.responses.entries,
                              LAMBDA r : /\ JsonContent(r.content) # <<>>
                                         /\ JsonContent(r.content)[1].hasSchema)
  IN [i \in 1..Len(withSchema) |-> JsonContent(withSchema[i].content)[1].schema]

\* responseValidators after buildResponseValidatorForOperation(operation)
BuildResponseValidatorForOperation(registry, opts, operation) ==
  LET key == RegistryKey(operation.operationId)
      schema == SchemaObject("any", <<>>, <<>>, TRUE, ResponseSchemas(operation))
  IN IF ~operation.responses.declared \/ ResponseSchemas(operation) = <<>>
     THEN registry
     ELSE [k \in DOMAIN registry \cup {key} |->
             IF k = key THEN Compile(opts, schema) ELSE registry[k]]

RECURSIVE BuildRequestValidators(_, _, _)
\* operations.map(this.buildRequestValidatorsForOperation.bind(this))
BuildRequestValidators(registry, opts, operations) ==
  IF operations = <<>> THEN registry
  ELSE BuildRequestValidators(
         BuildRequestValidatorsForOperation(registry, opts, Head(operations)),
         opts, Tail(operations))

RECURSIVE BuildResponseValidators(_, _, _)
\* operations.map(this.buildResponseValidatorForOperation.bind(this))
BuildResponseValidators(registry, opts, operations) ==
  IF operations = <<>> THEN registry
  ELSE BuildResponseValidators(
         BuildResponseValidatorForOperation(registry, opts, Head(operations)),
         opts, Tail(operations))

\* the empty registry object
EmptyRegistry == [k \in {} |-> <<>>]

\* getRequestValidatorsForOperation(operationId): undefined when not registered
GetRequestValidatorsForOperation(registry, operationId) ==
  IF operationId \in DOMAIN registry
  THEN [defined |-> TRUE, validators |-> registry[operationId]]
  ELSE [defined |-> FALSE, validators |-> <<>>]

\* getResponseValidatorForOperation(operationId), as a sequence of at most one
GetResponseValidatorForOperation(registry, operationId) ==
  IF operationId \in DOMAIN registry THEN <<registry[operationId]>> ELSE <<>>

----
(* The Router, by what the validator asks of it.                           *)

\* router.getOperations()
GetOperations(operations) == operations

\* router.getOperation(operationId), as a sequence of at most one operation
GetOperation(operations, operationId) ==
  LET found == SelectSeq(operations, LAMBDA o : o.operationId = operationId)
  IN IF found = <<>> THEN <<>> ELSE <<found[1]>>

\* router.matchOperation(req): the operation whose path and method the
\* request matches, which the request names by its place in the listing
MatchOperation(operations, req) ==
  IF req.route \in 1..Len(operations) THEN <<operations[req.route]>> ELSE <<>>

\* router.parseRequest(req, path)
ParseRequest(req) ==
  [params |-> req.params, query |-> req.query, headers |-> req.headers,
   cookies |-> req.cookies, requestBody |-> req.requestBody]

----
(* validateRequest and validateResponse.                                   *)

\* the operation argument of a call: left out, an operationId or an Operation
OperationArgument(kind, operationId, operation) ==
  [kind |-> kind, operationId |-> operationId, operation |-> operation]

\* the same without the test of operationId
ResolveRequestOperationAnyId(operations, req, arg) ==
  CASE arg.kind = "object" -> <<arg.operation>>
    [] arg.kind = "string" /\ arg.operationId # "" ->
         GetOperation(operations, arg.operationId)
    [] OTHER -> MatchOperation(operations, req)

\* the operation validateRequest validates against, <<>> when the call
\* throws 'Unknown operation'
ResolveRequestOperation(operations, req, arg) ==
  LET operation ==
        CASE arg.kind = "object" -> <<arg.operation>>
          [] arg.kind = "string" /\ arg.operationId # "" ->
               GetOperation(operations, arg.operationId)
          [] OTHER -> MatchOperation(operations, req)
  IN IF operation = <<>> \/ HasNoOperationId(operation[1]) THEN <<>> ELSE operation

\* the operation validateResponse validates against, <<>> when the call
\* throws 'Unknown operation'
ResolveResponseOperation(operations, arg) ==
  LET operation ==
        CASE arg.kind = "object" -> <<arg.operation>>
          [] arg.kind = "string" -> GetOperation(operations, arg.operationId)
          [] OTHER -> <<>>
  IN IF operation = <<>> \/ HasNoOperationId(operation[1]) THEN <<>> ELSE operation

\* _.find(operation.parameters, { name, in })
FindParameter(params, name, in) ==
  LET found == SelectSeq(params, LAMBDA p : p.name = name /\ p.in = in)
  IN IF found = <<>> THEN <<>> ELSE <<found[1]>>

\* the query left as the Router parsed it
NormalizeQueryUnchanged(operation, query) == query

\* the query with the single values of array parameters made arrays
NormalizeQuery(operation, query) ==
  IF query.t # "object" THEN query
  ELSE Obj([name \in DOMAIN query.props |->
              LET value == query.props[name]
                  operationParameter == FindParameter(operation.parameters, name, "query")
              IN IF /\ TypeOf(value) = "string"
                    /\ operationParameter # <<>>
                    /\ operationParameter[1].schema.type = "array"
                 THEN Arr(<<value>>)
                 ELSE value])

\* _.omitBy({ path, query, header, cookie }, _.isNil)
OmitNil(params, query, headers, cookies) ==
  LET all == [path |-> params, query |-> query, header |-> headers, cookie |-> cookies]
  IN Obj([k \in {n \in DOMAIN all : ~IsNil(all[n])} |-> all[k]])

\* the same with a message of its own in place of the parser's
MalformedBodyErrorsFixedMessage(operation, body) ==
  LET payloadFormats == IF operation.requestBody.declared
                        THEN operation.requestBody.content ELSE <<>>
  IN IF /\ TypeOf(body) # "object" /\ body.t # "undefined"
        /\ Len(payloadFormats) = 1 /\ payloadFormats[1].mediaType = "application/json"
        /\ ~JSONParse(TemplateString(body)).ok
     THEN <<ErrorObject("parse", <<>>, <<"#", "requestBody">>,
                        <<"Unable to parse JSON request body">>)>>
     ELSE <<>>

\* what the check of a body that is not yet parsed adds to result.errors
MalformedBodyErrors(operation, body) ==
  LET payloadFormats == IF operation.requestBody.declared
                        THEN operation.requestBody.content ELSE <<>>
  IN IF /\ TypeOf(body) # "object" /\ body.t # "undefined"
        /\ Len(payloadFormats) = 1 /\ payloadFormats[1].mediaType = "application/json"
        /\ ~JSONParse(TemplateString(body)).ok
     THEN <<ErrorObject("parse", <<>>, <<"#", "requestBody">>,
                        <<JSONParse(TemplateString(body)).message>>)>>
     ELSE <<>>

\* whether the test of line 163 reads a header of headers that are nil
ReadsNilHeaders(requestBody, headers) ==
  TypeOf(requestBody) # "object" /\ IsNil(headers)

\* the same without the test of the content-type header
IncludesRequestBodyObjectOnly(requestBody, headers) ==
  TypeOf(requestBody) = "object"

\* whether the parsed body goes into the input
IncludesRequestBody(requestBody, headers) ==
  \/ TypeOf(requestBody) = "object"
  \/ Get(headers, "content-type") = Str("application/json")

RECURSIVE RunValidatorsToFirstFailure(_, _)
\* the same stopping at the first validator that finds errors
RunValidatorsToFirstFailure(validators, data) ==
  IF validators = <<>> THEN <<>>
  ELSE IF Validate(Head(validators), data) # <<>> THEN Validate(Head(validators), data)
  ELSE RunValidatorsToFirstFailure(Tail(validators), data)

RECURSIVE RunValidators(_, _)
\* the errors of the validators, each run on the input, in order
RunValidators(validators, data) ==
  IF validators = <<>> THEN <<>>
  ELSE Validate(Head(validators), data) \o RunValidators(Tail(validators), data)

\* the result with the empty list of errors left in place
ReturnedEmptyList(errors) ==
  [outcome |-> "returned", error |-> "", valid |-> errors = <<>>,
   errorsNull |-> FALSE, errors |-> errors]

\* the result a call returns for the errors it collected
Returned(errors) ==
  IF errors = <<>>
  THEN [outcome |-> "returned", error |-> "", valid |-> TRUE,
        errorsNull |-> TRUE, errors |-> <<>>]
  ELSE [outcome |-> "returned", error |-> "", valid |-> FALSE,
        errorsNull |-> FALSE, errors |-> errors]

\* a call that throws
Thrown(error) ==
  [outcome |-> "thrown", error |-> error, valid |-> TRUE,
   errorsNull |-> FALSE, errors |-> <<>>]

\* validateRequest(req, operation): what it returns or throws, the input it
\* built and the validators it ran
ValidateRequestCall(operations, rv, req, arg) ==
  LET resolved == ResolveRequestOperation(operations, req, arg)
      operation == resolved[1]
      validators == GetRequestValidatorsForOperation(rv, RegistryKey(operation.operationId))
      parsed == ParseRequest(req)
      query == NormalizeQuery(operation, parsed.query)
      omitted == OmitNil(parsed.params, query, parsed.headers, parsed.cookies)
      parseErrors == MalformedBodyErrors(operation, req.body)
      data == IF IncludesRequestBody(parsed.requestBody, parsed.headers)
              THEN Put(omitted, "requestBody", parsed.requestBody)
              ELSE omitted
  IN CASE resolved = <<>> ->
            [result |-> Thrown("Unknown operation"), parameters |-> Undefined, ran |-> <<>>]
       [] resolved # <<>> /\ ReadsNilHeaders(parsed.requestBody, parsed.headers) ->
            [result |-> Thrown("TypeError"), parameters |-> omitted, ran |-> <<>>]
       [] resolved # <<>> /\ ~ReadsNilHeaders(parsed.requestBody, parsed.headers)
          /\ ~validators.defined ->
            [result |-> Thrown("TypeError"), parameters |-> data, ran |-> <<>>]
       [] OTHER ->
            [result |-> Returned(parseErrors \o RunValidators(validators.validators, data)),
             parameters |-> data, ran |-> validators.validators]

\* validateResponse(res, operation): what it returns or throws and the
\* validators it ran
ValidateResponseCall(operations, rsv, res, arg) ==
  LET resolved == ResolveResponseOperation(operations, arg)
      validate == GetResponseValidatorForOperation(rsv, RegistryKey(resolved[1].operationId))
  IN IF resolved = <<>>
     THEN [result |-> Thrown("Unknown operation"), parameters |-> Undefined, ran |-> <<>>]
     ELSE [result |-> Returned(RunValidators(validate, res)),
           parameters |-> Undefined, ran |-> validate]

----
(* The definitions, requests and responses the model draws from.           *)

RECURSIVE Choices(_, _)
\* the subsequences of `pool` of at most n elements
Choices(pool, n) ==
  IF pool = <<>> \/ n = 0 THEN {<<>>}
  ELSE Choices(Tail(pool), n)
       \cup {<<Head(pool)>> \o rest : rest \in Choices(Tail(pool), n - 1)}

ParameterPool ==
  <<Parameter("c", "cookie", TRUE, TypeSchema("integer")),
    Parameter("id", "path", TRUE, TypeSchema("integer")),
    Parameter("q", "query", FALSE, TypeSchema("array")),
    Parameter("q", "query", TRUE, TypeSchema("integer")),
    Parameter("q", "header", FALSE, TypeSchema("array")),
    Parameter("h", "header", TRUE, TypeSchema("string"))>>

\* the parameter lists: no two parameters of one name and location
ParameterLists ==
  {ps \in Choices(ParameterPool, MaxParams) :
     \A i, j \in 1..Len(ps) : (ps[i].name = ps[j].name /\ ps[i].in = ps[j].in) => i = j}

NoSchema == TypeSchema("any")

PetSchema == ObjectSchema(<<"name">>)

ErrorSchema == ObjectSchema(<<"message">>)

NoRequestBody == RequestBody(FALSE, <<>>)

RequestBodies ==
  {NoRequestBody,
   RequestBody(TRUE, <<MediaType("application/json", TRUE, PetSchema)>>),
   RequestBody(TRUE, <<MediaType("application/json", TRUE, PetSchema),
                       MediaType("text/plain", FALSE, NoSchema)>>),
   RequestBody(TRUE, <<MediaType("application/json", TRUE, TypeSchema("integer"))>>),
   RequestBody(TRUE, <<MediaType("application/json", FALSE, NoSchema)>>),
   RequestBody(TRUE, <<MediaType("text/plain", FALSE, NoSchema)>>)}

ResponsePool ==
  <<Response("200", <<MediaType("application/json", TRUE, PetSchema)>>),
    Response("204", <<>>),
    Response("404", <<MediaType("application/json", TRUE, ErrorSchema)>>),
    Response("500", <<MediaType("application/json", FALSE, NoSchema)>>),
    Response("default", <<MediaType("application/json", TRUE, ObjectSchema(<<>>))>>)>>

NoResponses == Responses(FALSE, <<>>)

ResponseMaps ==
  {NoResponses} \cup {Responses(TRUE, rs) : rs \in Choices(ResponsePool, MaxResponses)}

\* the parameter lists of the operations whose requestBody the model varies
BodyParameterLists == Choices(<<ParameterPool[2]>>, MaxParams)

\* the first operation of a definition: the model varies its parameters, its
\* requestBody or its responses
PrimaryOperations ==
  {Operation("opA", ps, NoRequestBody, NoResponses) : ps \in ParameterLists}
  \cup {Operation("opA", ps, b, NoResponses) : ps \in BodyParameterLists, b \in RequestBodies}
  \cup {Operation("opA", <<>>, NoRequestBody, rs) : rs \in ResponseMaps}

\* the operations that follow it in every definition
OtherOperations ==
  <<Operation("opB", <<ParameterPool[2]>>,
              RequestBody(TRUE, <<MediaType("application/json", TRUE, PetSchema)>>),
              Responses(TRUE, <<ResponsePool[1]>>)),
    Operation(NoOperationId, <<>>, NoRequestBody, Responses(TRUE, <<ResponsePool[1]>>))>>

Definitions == {<<o>> \o OtherOperations : o \in PrimaryOperations}

\* an Operation object that is not of the definition
GhostOperation ==
  Operation("ghost", <<ParameterPool[3]>>, NoRequestBody, Responses(TRUE, <<ResponsePool[1]>>))

AjvOptions == {[coerceTypes |-> FALSE], [coerceTypes |-> TRUE]}

\* an object of the one property k
One(k, x) == Obj([n \in {k} |-> x])

EmptyObject == Obj(NoProps)

PathParams == {Undefined, EmptyObject, One("id", Str("1")), One("id", Str("abc"))}

Queries ==
  {Undefined, EmptyObject, One("z", Str("1")),
   One("q", Str("1")), One("q", Arr(<<Str("1")>>)), One("q", Str("abc"))}

\* the headers but content-type
OtherHeaders == {EmptyObject, One("h", Str("abc")), One("q", Str("1"))}

\* the content-type header, "" when the request has none
ContentTypes == {"", "application/json", "text/plain"}

\* the parsed headers of a request
HeadersOf(others, contentType) ==
  IF contentType = "" THEN others ELSE Put(others, "content-type", Str(contentType))

Cookies == {Undefined, EmptyObject, One("c", Str("1")), One("c", Str("abc"))}

Bodies ==
  {Undefined, One("name", Str("rex")), EmptyObject,
   Str("{\"name\":\"rex\"}"), Str("{bad"), Str("7")}

\* requestBody of parseRequest: the body when it is an object, what it
\* parses to when it is JSON text; of text that is not JSON it is the text
\* or nothing
ParsedBodies(body) ==
  CASE TypeOf(body) = "object" -> {body}
    [] body.t = "undefined" -> {Undefined}
    [] JSONParse(TemplateString(body)).ok -> {JSONParse(TemplateString(body)).value}
    [] OTHER -> {body, Undefined}

Request(route, params, query, headers, cookies, body, requestBody) ==
  [route |-> route, params |-> params, query |-> query, headers |-> headers,
   cookies |-> cookies, body |-> body, requestBody |-> requestBody]

\* a request no operation of the definition matches, with nothing in it
PlainRequest ==
  Request(0, EmptyObject, EmptyObject, EmptyObject, EmptyObject, Undefined, Undefined)

\* the operation arguments of validateRequest that are not left out
RequestArguments(operations) ==
  {OperationArgument("string", id, GhostOperation) : id \in {"opA", "opB", "ghost", ""}}
  \cup {OperationArgument("object", "", o) :
          o \in {operations[i] : i \in 1..Len(operations)} \cup {GhostOperation}}

Omitted == OperationArgument("omitted", "", GhostOperation)

\* the operation arguments of validateResponse
ResponseArguments(operations) == RequestArguments(operations) \cup {Omitted}

Payloads ==
  {One("name", Str("rex")), One("message", Str("no")), EmptyObject,
   Put(One("name", Str("rex")), "message", Str("no")), Str("7"), Num("7"), Null}

\* the input of an earlier validateRequest and the payload of an earlier
\* validateResponse, which the validators of the model reject
EarlierInput == One("query", One("zz", Str("1")))

EarlierPayload == Str("7")

\* requestValidators once every validator has been called on `data`
RequestValidatorsAfter(registry, data) ==
  [k \in DOMAIN registry |->
     [i \in 1..Len(registry[k]) |-> Called(registry[k][i], data)]]

\* responseValidators once every validator has been called on `data`
ResponseValidatorsAfter(registry, data) ==
  [k \in DOMAIN registry |-> Called(registry[k], data)]

----
(* The state machine.  The registries of the state are the validators as   *)
(* compiled; what earlier calls left in validate.errors is an input of a   *)
(* call: nothing, or the errors of an earlier call that failed.            *)

NoCall ==
  [method |-> "none", req |-> PlainRequest, res |-> Undefined, operation |-> Omitted,
   earlier |-> FALSE]

NoResult ==
  [outcome |-> "none", error |-> "", valid |-> TRUE, errorsNull |-> FALSE, errors |-> <<>>]

\* the state once the constructor has run
Init ==
  /\ definition \in Definitions
  /\ ajvOpts \in AjvOptions
  /\ requestValidators =
       BuildRequestValidators(EmptyRegistry, ajvOpts, GetOperations(definition))
  /\ responseValidators =
       BuildResponseValidators(EmptyRegistry, ajvOpts, GetOperations(definition))
  /\ pc = "idle"
  /\ call = NoCall
  /\ parameters = Undefined
  /\ ran = <<>>
  /\ result = NoResult

\* a call of validateRequest(req, operation), to its return or throw
DoValidateRequestAfter(req, arg, earlier) ==
  LET validators == IF earlier
                    THEN RequestValidatorsAfter(requestValidators, EarlierInput)
                    ELSE requestValidators
      out == ValidateRequestCall(definition, validators, req, arg)
  IN /\ pc' = "done"
     /\ call' = [method |-> "validateRequest", req |-> req, res |-> Undefined,
                 operation |-> arg, earlier |-> earlier]
     /\ result' = out.result
     /\ parameters' = out.parameters
     /\ ran' = out.ran
     /\ UNCHANGED <<definition, ajvOpts, requestValidators, responseValidators>>

\* the same on the validators as compiled
DoValidateRequest(req, arg) == DoValidateRequestAfter(req, arg, FALSE)

\* validateRequest(req) of a request the Router matches to the first
\* operation: any path, query, headers and cookies, with no body or an object
ValidateRequest ==
  /\ pc = "idle"
  /\ \E p \in PathParams, q \in Queries, h \in OtherHeaders, c \in Cookies,
        b \in {Undefined, One("name", Str("rex"))} :
       DoValidateRequest(Request(1, p, q, h, c, b, b), Omitted)

\* validateRequest(req) of a request the Router matches to the first
\* operation: any body and content-type, with or without the path parameter
ValidateRequestBody ==
  /\ pc = "idle"
  /\ \E p \in {EmptyObject, One("id", Str("1"))}, ct \in ContentTypes, b \in Bodies :
       \E rb \in ParsedBodies(b) :
         DoValidateRequest(Request(1, p, EmptyObject, HeadersOf(EmptyObject, ct),
                                   EmptyObject, b, rb), Omitted)

\* validateRequest(req) of a request the Router matches to another operation
\* or to none, and validateRequest(req, '')
ValidateOtherRequest ==
  /\ pc = "idle"
  /\ \E r \in 0..Len(definition), q \in Queries, b \in Bodies,
        arg \in {Omitted, OperationArgument("string", "", GhostOperation)} :
       \E rb \in ParsedBodies(b) :
         /\ r = 1 => arg # Omitted
         /\ DoValidateRequest(Request(r, EmptyObject, q, EmptyObject, EmptyObject, b, rb),
                              arg)

\* validateRequest(req, operation) with the operation given
ValidateRequestAgainst ==
  /\ pc = "idle"
  /\ \E arg \in RequestArguments(definition), q \in Queries, b \in Bodies :
       \E rb \in ParsedBodies(b) :
         DoValidateRequest(Request(0, EmptyObject, q, EmptyObject, EmptyObject, b, rb),
                           arg)

\* a call of validateResponse(res, operation), to its return or throw
DoValidateResponseAfter(res, arg, earlier) ==
  LET validators == IF earlier
                    THEN ResponseValidatorsAfter(responseValidators, EarlierPayload)
                    ELSE responseValidators
      out == ValidateResponseCall(definition, validators, res, arg)
  IN /\ pc' = "done"
     /\ call' = [method |-> "validateResponse", req |-> PlainRequest, res |-> res,
                 operation |-> arg, earlier |-> earlier]
     /\ result' = out.result
     /\ parameters' = out.parameters
     /\ ran' = out.ran
     /\ UNCHANGED <<definition, ajvOpts, requestValidators, responseValidators>>

\* validateResponse(res, operation) on the validators as compiled
ValidateResponse ==
  /\ pc = "idle"
  /\ \E res \in Payloads, arg \in ResponseArguments(definition) :
       DoValidateResponseAfter(res, arg, FALSE)

\* validateRequest(req) of a request the Router matches to an operation,
\* after an earlier call whose input every validator rejected
ValidateRequestAgain ==
  /\ pc = "idle"
  /\ \E r \in 1..Len(definition), p \in {EmptyObject, One("id", Str("1"))},
        q \in {EmptyObject, One("q", Str("1"))}, b \in Bodies :
       \E rb \in ParsedBodies(b) :
         DoValidateRequestAfter(Request(r, p, q, EmptyObject, EmptyObject, b, rb),
                                Omitted, TRUE)

\* validateResponse(res, operation) after an earlier call whose payload
\* every validator rejected
ValidateResponseAgain ==
  /\ pc = "idle"
  /\ \E res \in Payloads, arg \in ResponseArguments(definition) :
       DoValidateResponseAfter(res, arg, TRUE)

\* the caller takes the result; the validator is ready for the next call
Return ==
  /\ pc = "done"
  /\ pc' = "idle"
  /\ call' = NoCall
  /\ parameters' = Undefined
  /\ ran' = <<>>
  /\ result' = NoResult
  /\ UNCHANGED <<definition, ajvOpts, requestValidators, responseValidators>>

Next ==
  \/ ValidateRequest
  \/ ValidateRequestBody
  \/ ValidateOtherRequest
  \/ ValidateRequestAgainst
  \/ ValidateResponse
  \/ ValidateRequestAgain
  \/ ValidateResponseAgain
  \/ Return

Spec == Init /\ [][Next]_vars

\* validateRequest(req) of a request the Router matches to an operation and
\* parses with locations absent: no headers, no cookies, no query
ValidateRequestWithAbsent ==
  /\ pc = "idle"
  /\ \E r \in 1..Len(definition), p \in {Undefined, One("id", Str("1"))},
        h \in {Undefined, Null, EmptyObject}, b \in Bodies :
       \E rb \in ParsedBodies(b) :
         DoValidateRequest(Request(r, p, Undefined, h, Undefined, b, rb), Omitted)

NextAbsent ==
  \/ ValidateRequestWithAbsent
  \/ Return

\* the validator behind a Router that leaves out the locations a request
\* does not carry
SpecAbsent == Init /\ [][NextAbsent]_vars

----
(* What the claims speak of.                                               *)

\* a call has ended
Done == pc = "done"

\* the call that ended was validateRequest, validateResponse
IsRequest == Done /\ call.method = "validateRequest"

IsResponse == Done /\ call.method = "validateResponse"

\* the operations of the definition
Listed == {definition[i] : i \in 1..Len(definition)}

\* the operationIds of the definition
ListedIds == {o.operationId : o \in Listed} \ {NoOperationId}

\* the operation argument of the call names or is an operation
Given == call.operation.kind = "object"
         \/ (call.operation.kind = "string" /\ call.operation.operationId # "")

\* the operation the call is about, when it has one: the one given, the one
\* of the id given, or the one the Router matches the request to
Target ==
  CASE call.operation.kind = "object" -> call.operation.operation
    [] call.operation.kind = "string" /\ call.operation.operationId \in ListedIds ->
         CHOOSE o \in Listed : o.operationId = call.operation.operationId
    [] OTHER -> definition[call.req.route]

\* the call cannot tell its operation: the id is unknown to the Router, no
\* operation is given and none matches, or the operation has no operationId
Unknown ==
  \/ call.operation.kind = "object" /\ call.operation.operation.operationId = NoOperationId
  \/ call.operation.kind = "string" /\ call.operation.operationId # ""
     /\ call.operation.operationId \notin ListedIds
  \/ ~Given /\ IsResponse
  \/ ~Given /\ IsRequest /\ call.req.route \notin 1..Len(definition)
  \/ ~Given /\ IsRequest /\ call.req.route \in 1..Len(definition)
     /\ definition[call.req.route].operationId = NoOperationId

\* the call is about an operation of the definition
OnListed == Done /\ ~Unknown /\ Target \in Listed

\* the call returned a ValidationResult
HasResult == Done /\ result.outcome = "returned"

\* the call threw `error`
Threw(error) == Done /\ result.outcome = "thrown" /\ result.error = error

\* C1: every ValidationResult a call returns has valid false exactly when
\* errors is a list that is not empty and valid true exactly when errors is
\* null; errors is never an empty list.
ResultShape ==
  HasResult =>
    /\ ~result.valid <=> (~result.errorsNull /\ result.errors # <<>>)
    /\ result.valid <=> result.errorsNull
    /\ result.errorsNull => result.errors = <<>>
    /\ ~result.errorsNull => result.errors # <<>>

\* validateRequest returned a result that lists errors
ResultShapeWitness == IsRequest /\ HasResult /\ ~result.valid /\ Len(result.errors) >= 1

\* C2: a call throws 'Unknown operation' exactly when its operation is
\* unknown (an empty string counts as no operation given); it then returns
\* no result and runs no validator.
UnknownOperationThrows ==
  Done =>
    /\ Threw("Unknown operation") <=> Unknown
    /\ Unknown => ~HasResult /\ ran = <<>>

\* validateRequest threw for a request matched to an operation that has no
\* operationId
UnknownOperationWitness ==
  /\ IsRequest /\ ~Given /\ call.req.route \in 1..Len(definition)
  /\ definition[call.req.route].operationId = NoOperationId
  /\ Threw("Unknown operation") /\ ran = <<>>

\* the operation declares a schema for an application/json body
JsonBodySchema(operation) ==
  /\ operation.requestBody.declared
  /\ \E i \in 1..Len(operation.requestBody.content) :
       /\ operation.requestBody.content[i].mediaType = "application/json"
       /\ operation.requestBody.content[i].hasSchema

\* application/json is the only media type of the operation's requestBody
OnlyJson(operation) ==
  /\ operation.requestBody.declared
  /\ Len(operation.requestBody.content) = 1
  /\ operation.requestBody.content[1].mediaType = "application/json"

\* the body of the request is there and is text that JSON.parse rejects
Unparsable(body) ==
  /\ body.t \notin {"undefined", "null", "object", "array"}
  /\ ~JSONParse(TemplateString(body)).ok

\* the value is absent or has no keys
Keyless(v) == IsNil(v) \/ DOMAIN v.props = {}

\* v conforms to the schema, as a validator of the engine's options sees it
Conforms(schema, v) ==
  ValidationErrors(schema, v, ajvOpts.coerceTypes, <<>>, <<"#">>) = <<>>

\* the schemas of the application/json responses of the operation
JsonResponseSchemas(operation) ==
  IF ~operation.responses.declared THEN {}
  ELSE UNION {{r.content[j].schema :
                 j \in {k \in 1..Len(r.content) :
                          /\ r.content[k].mediaType = "application/json"
                          /\ r.content[k].hasSchema}} :
              r \in {operation.responses.entries[i] :
                       i \in 1..Len(operation.responses.entries)}}

\* C3: for an operation with application/json response schemas,
\* validateResponse returns valid true for a payload that conforms to at
\* least one of them, to several of them too, and valid false for a payload
\* that conforms to none.
AnyResponseSchemaAccepts ==
  (IsResponse /\ OnListed /\ JsonResponseSchemas(Target) # {}) =>
    /\ HasResult
    /\ result.valid <=> \E schema \in JsonResponseSchemas(Target) : Conforms(schema, call.res)

\* the operation has no parameters and no schema for an application/json body
NoContract(operation) == operation.parameters = <<>> /\ ~JsonBodySchema(operation)

\* C4, as claimed: for an operation with no parameters and no JSON body
\* schema, validateRequest returns valid true and no errors whatever the
\* request carries.
NoContractAcceptsAll ==
  (IsRequest /\ OnListed /\ NoContract(Target)) =>
    HasResult /\ result.valid /\ result.errorsNull

\* C4, amended: for such an operation validateRequest returns valid true and
\* no errors exactly for the requests whose parsed path and query carry no
\* key and whose body, when application/json is the only media type the
\* operation declares, is not text that fails to parse; headers, cookies and
\* the body otherwise do not matter.
NoContractAcceptsKeyless ==
  (IsRequest /\ OnListed /\ NoContract(Target)) =>
    /\ HasResult
    /\ result.valid <=> /\ Keyless(call.req.params)
                        /\ Keyless(call.req.query)
                        /\ ~(OnlyJson(Target) /\ Unparsable(call.req.body))
    /\ result.valid => result.errorsNull

\* such an operation accepted a request that carries a header, a cookie and
\* a body
NoContractWitness ==
  /\ IsRequest /\ OnListed /\ NoContract(Target)
  /\ DOMAIN call.req.headers.props # {}
  /\ ~Keyless(call.req.cookies)
  /\ call.req.body.t = "object"
  /\ HasResult /\ result.valid /\ result.errorsNull

\* C5: when the registry holds no request validators for the operationId of
\* the operation, validateRequest runs none and returns a result.
UnregisteredRunsNothing ==
  (IsRequest /\ ~Unknown /\ RegistryKey(Target.operationId) \notin DOMAIN requestValidators) =>
    HasResult

BodyOmittedParamsValid ==
  /\ call.req.body.t = "undefined" /\ call.req.requestBody.t = "undefined"
  /\ Validate(ParamsValidator(ajvOpts, Target), parameters) = <<>>

RequiredRequestBody ==
  ErrorObject("required", <<>>, <<"#", "required">>,
              <<"should have required property", "requestBody">>)

\* C7: for an operation of the definition with an application/json body
\* schema and a request without a body whose parameters are valid,
\* validateRequest reports the one error that requestBody is required when
\* application/json is the only media type, and no error when there are
\* others.
OmittedBodyRequired ==
  (IsRequest /\ OnListed /\ JsonBodySchema(Target) /\ BodyOmittedParamsValid) =>
    /\ HasResult
    /\ IF Len(Target.requestBody.content) = 1
       THEN ~result.valid /\ result.errors = <<RequiredRequestBody>>
       ELSE result.valid /\ result.errorsNull

\* validateRequest reported the missing body of a JSON-only operation
OmittedBodyWitness ==
  /\ IsRequest /\ OnListed /\ JsonBodySchema(Target) /\ BodyOmittedParamsValid
  /\ OnlyJson(Target)
  /\ HasResult /\ result.errors = <<RequiredRequestBody>>

\* the operation declares `name` as a query parameter of type array
DeclaresQueryArray(operation, name) ==
  \E i \in 1..Len(operation.parameters) :
    /\ operation.parameters[i].name = name
    /\ operation.parameters[i].in = "query"
    /\ operation.parameters[i].schema.type = "array"

\* C8: a query key that carries the single string v gives the result that
\* the one-element array [v] gives when the operation declares the key as a
\* query parameter of type array; only such keys are wrapped.
SingleQueryValueAsArray ==
  (IsRequest /\ OnListed /\ HasResult /\ call.req.query.t = "object") =>
    \A name \in DOMAIN call.req.query.props :
      LET v == call.req.query.props[name]
          wrapped == [call.req EXCEPT !.query = Put(@, name, Arr(<<v>>))]
      IN v.t = "string" =>
           /\ DeclaresQueryArray(Target, name) =>
                result = ValidateRequestCall(definition, requestValidators,
                                             wrapped, call.operation).result
           /\ Get(Get(parameters, "query"), name).t = "array" =>
                DeclaresQueryArray(Target, name)

\* a single value of an array parameter was wrapped and accepted
SingleQueryValueWitness ==
  /\ IsRequest /\ OnListed /\ HasResult /\ call.req.query.t = "object"
  /\ \E name \in DOMAIN call.req.query.props :
       /\ call.req.query.props[name].t = "string"
       /\ DeclaresQueryArray(Target, name)
       /\ Get(Get(parameters, "query"), name) = Arr(<<call.req.query.props[name]>>)
  /\ result.valid

\* C9: when no response validator is registered for the operation, as for
\* an operation of the definition without a responses map or without an
\* application/json response schema, validateResponse returns valid true
\* and no errors for every payload and runs no validator.
NoResponseValidatorAccepts ==
  (/\ IsResponse /\ ~Unknown
   /\ \/ RegistryKey(Target.operationId) \notin DOMAIN responseValidators
      \/ Target \in Listed /\ JsonResponseSchemas(Target) = {}) =>
    HasResult /\ result.valid /\ result.errorsNull /\ ran = <<>>

\* validateResponse accepted a payload for an operation whose responses
\* have no application/json schema
NoResponseValidatorWitness ==
  /\ IsResponse /\ OnListed
  /\ Target.responses.declared /\ Target.responses.entries # <<>>
  /\ JsonResponseSchemas(Target) = {}
  /\ HasResult /\ result.valid /\ result.errorsNull /\ ran = <<>>

\* the validator is the parameter validator, the body validator
IsParamsValidator(validator) ==
  PropertyNames(validator.schema.properties) = {"path", "query", "header", "cookie"}

IsBodyValidator(validator) ==
  PropertyNames(validator.schema.properties) = {"requestBody"}

\* C10: for every operation of the listing the registry holds one or two
\* request validators, the last the parameter validator, the first of two
\* the body validator, which is there exactly when the operation declares
\* an application/json body schema; and one response validator or none.
RegistryShape ==
  \A operation \in Listed :
    LET key == RegistryKey(operation.operationId)
    IN /\ key \in DOMAIN requestValidators
       /\ Len(requestValidators[key]) \in {1, 2}
       /\ IsParamsValidator(requestValidators[key][Len(requestValidators[key])])
       /\ Len(requestValidators[key]) = 2 <=> JsonBodySchema(operation)
       /\ Len(requestValidators[key]) = 2 => IsBodyValidator(requestValidators[key][1])
       /\ key \in DOMAIN responseValidators <=> JsonResponseSchemas(operation) # {}
       /\ key \in DOMAIN responseValidators =>
            Len(responseValidators[key].schema.oneOf) \in 1..MaxResponses

\* the registry after construction holds a body validator and a parameter
\* validator for the first operation and a response validator for another
RegistryShapeWitness ==
  /\ pc = "idle"
  /\ Len(requestValidators["opA"]) = 2
  /\ "opB" \in DOMAIN responseValidators /\ "opA" \notin DOMAIN responseValidators

\* the error of a body that JSON.parse rejects
ParseError(body) ==
  ErrorObject("parse", <<>>, <<"#", "requestBody">>,
              <<JSONParse(TemplateString(body)).message>>)

\* the request validators registered for the operation of the call
Registered == requestValidators[RegistryKey(Target.operationId)]

\* the validators are the same compiled functions, whatever their last
\* errors
SameValidators(vs, ws) ==
  /\ Len(vs) = Len(ws)
  /\ \A i \in 1..Len(vs) :
       vs[i].schema = ws[i].schema /\ vs[i].coerceTypes = ws[i].coerceTypes

\* C11: a parse failure does not end validateRequest: every request
\* validator of the operation runs, in the order of the registry, and the
\* errors returned are the parse error, when there is one, then the errors
\* of the body validator, then those of the parameter validator, each list
\* whole and in its own order.
ErrorsInOrder ==
  (IsRequest /\ OnListed /\ HasResult) =>
    LET parse == IF OnlyJson(Target) /\ Unparsable(call.req.body)
                 THEN <<ParseError(call.req.body)>> ELSE <<>>
        found == [i \in 1..Len(Registered) |-> Validate(Registered[i], parameters)]
    IN /\ SameValidators(ran, Registered)
       /\ Len(Registered) = 1 => result.errors = parse \o found[1]
       /\ Len(Registered) = 2 =>
            /\ IsBodyValidator(Registered[1]) /\ IsParamsValidator(Registered[2])
            /\ result.errors = parse \o found[1] \o found[2]

\* validateRequest returned the parse error, then an error of the body
\* validator, then an error of the parameter validator
ErrorsInOrderWitness ==
  /\ IsRequest /\ OnListed /\ HasResult
  /\ Len(ran) = 2 /\ Len(result.errors) = 3
  /\ result.errors[1].keyword = "parse"
  /\ result.errors[2] = RequiredRequestBody
  /\ result.errors[3].keyword = "required"
  /\ result.errors[3].dataPath = <<"path">>

Locations == {"path", "query", "header", "cookie"}

\* the elements of a sequence
Range(seq) == {seq[i] : i \in 1..Len(seq)}

\* the schema the parameter validator of the operation was compiled from
ParamsSchemaOf(operation) ==
  LET validators == requestValidators[RegistryKey(operation.operationId)]
  IN validators[Len(validators)].schema

\* its schema of the location
LocationSchema(schema, loc) ==
  schema.properties[PropertyIndex(schema.properties, loc)].schema

\* the operation has a required parameter in the location
HasRequired(operation, loc) ==
  \E i \in 1..Len(operation.parameters) :
    operation.parameters[i].in = loc /\ operation.parameters[i].required

\* what the Router parsed for the location
ParsedLocation(loc) ==
  CASE loc = "path" -> call.req.params
    [] loc = "query" -> call.req.query
    [] loc = "header" -> call.req.headers
    [] OTHER -> call.req.cookies

\* the error of an input that lacks a required location
MissingLocation(loc) ==
  ErrorObject("required", <<>>, <<"#", "required">>,
              <<"should have required property", loc>>)

\* C13: the parameter schema requires a location exactly when the
\* operation has a required parameter there, and every required parameter
\* is in the required list of its location; the input leaves out the
\* locations the Router parsed nothing for, and a request is rejected for a
\* missing location only when the operation has a required parameter in it.
LocationsRequired ==
  /\ \A operation \in Listed : \A loc \in Locations :
       /\ loc \in Range(ParamsSchemaOf(operation).required)
            <=> HasRequired(operation, loc)
       /\ \A i \in 1..Len(operation.parameters) :
            (operation.parameters[i].in = loc /\ operation.parameters[i].required) =>
              operation.parameters[i].name
                \in Range(LocationSchema(ParamsSchemaOf(operation), loc).required)
  /\ (IsRequest /\ OnListed /\ HasResult) =>
       \A loc \in Locations :
         /\ loc \in DOMAIN parameters.props <=> ~IsNil(ParsedLocation(loc))
         /\ (\E i \in 1..Len(result.errors) : result.errors[i] = MissingLocation(loc)) =>
              IsNil(ParsedLocation(loc)) /\ HasRequired(Target, loc)
         /\ (IsNil(ParsedLocation(loc)) /\ HasRequired(Target, loc)) => ~result.valid

\* a request without cookies was rejected for the cookie the operation
\* requires, its absent query was not held against it
LocationsRequiredWitness ==
  /\ IsRequest /\ OnListed /\ HasResult
  /\ IsNil(call.req.cookies) /\ HasRequired(Target, "cookie")
  /\ IsNil(call.req.query) /\ ~HasRequired(Target, "query")
  /\ result.errors = <<MissingLocation("cookie")>>

\* the names of the parameters the operation declares in the location
DeclaredNames(operation, loc) ==
  {operation.parameters[i].name :
     i \in {j \in 1..Len(operation.parameters) : operation.parameters[j].in = loc}}

\* the keys of the value that are not declared parameters of the location
Undeclared(operation, loc, v) ==
  IF v.t = "object" THEN DOMAIN v.props \ DeclaredNames(operation, loc) ELSE {}

\* the object without the keys
Without(v, keys) ==
  IF v.t = "object" THEN Obj([k \in DOMAIN v.props \ keys |-> v.props[k]]) ELSE v

\* C14: a request with a path or query key that is not a declared
\* parameter of the location is invalid; header and cookie keys that are not
\* declared give no error: the result is that of the request without them
\* (the content-type header set apart: it decides on the body).
UnknownKeysRejected ==
  (IsRequest /\ OnListed /\ HasResult) =>
    LET bare == [call.req EXCEPT
                   !.headers = Without(@, Undeclared(Target, "header", @)
                                          \ {"content-type"}),
                   !.cookies = Without(@, Undeclared(Target, "cookie", @))]
    IN /\ (\/ Undeclared(Target, "path", call.req.params) # {}
           \/ Undeclared(Target, "query", call.req.query) # {}) => ~result.valid
       /\ \A i \in 1..Len(result.errors) :
            result.errors[i].keyword = "additionalProperties" =>
              result.errors[i].dataPath \in {<<"path">>, <<"query">>}
       /\ result = ValidateRequestCall(definition, requestValidators, bare,
                                       call.operation).result

\* a request with an undeclared query key, header and cookie was rejected
\* for the query key alone
UnknownKeysRejectedWitness ==
  /\ IsRequest /\ OnListed /\ HasResult
  /\ Undeclared(Target, "query", call.req.query) # {}
  /\ Undeclared(Target, "header", call.req.headers) # {}
  /\ Undeclared(Target, "cookie", call.req.cookies) # {}
  /\ Len(result.errors) = 1
  /\ result.errors[1].keyword = "additionalProperties"
  /\ result.errors[1].dataPath = <<"query">>

\* C15, as claimed: whatever the options of the engine, the parameter
\* validator of every operation coerces types and its body and response
\* validators do not.
StrictBodyAndResponse ==
  \A operation \in Listed :
    LET key == RegistryKey(operation.operationId)
        validators == requestValidators[key]
    IN /\ validators[Len(validators)].coerceTypes
       /\ Len(validators) = 2 => ~validators[1].coerceTypes
       /\ key \in DOMAIN responseValidators => ~responseValidators[key].coerceTypes

\* C15, amended: the parameter validator of every operation coerces types
\* whatever the options say; its body and response validators are compiled
\* with the options as given: they coerce exactly when the options ask for
\* it.  A request is judged by these profiles.
ProfilesFollowOptions ==
  /\ \A operation \in Listed :
       LET key == RegistryKey(operation.operationId)
           validators == requestValidators[key]
       IN /\ validators[Len(validators)].coerceTypes
          /\ Len(validators) = 2 => validators[1].coerceTypes = ajvOpts.coerceTypes
          /\ key \in DOMAIN responseValidators =>
               responseValidators[key].coerceTypes = ajvOpts.coerceTypes
  /\ (IsRequest /\ OnListed /\ HasResult) =>
       LET parse == IF OnlyJson(Target) /\ Unparsable(call.req.body)
                    THEN <<ParseError(call.req.body)>> ELSE <<>>
           body == IF Len(Registered) = 2
                   THEN ValidationErrors(Registered[1].schema, parameters,
                                         ajvOpts.coerceTypes, <<>>, <<"#">>)
                   ELSE <<>>
           params == ValidationErrors(ParamsSchemaOf(Target), parameters, TRUE,
                                      <<>>, <<"#">>)
       IN result.errors = parse \o body \o params

\* under options that do not coerce, the string '1' was accepted for an
\* integer path parameter by the parameter validator, next to a body
\* validator compiled without coercion
ProfilesFollowOptionsWitness ==
  /\ IsRequest /\ OnListed /\ HasResult /\ ~ajvOpts.coerceTypes
  /\ Len(ran) = 2 /\ ~ran[1].coerceTypes /\ ran[2].coerceTypes
  /\ "id" \in DeclaredNames(Target, "path")
  /\ Get(Get(parameters, "path"), "id") = Str("1")
  /\ result.valid

\* the input of the call holds the parsed body
Attached == "requestBody" \in DOMAIN parameters.props

\* C16: validateRequest puts the parsed body into the input as requestBody
\* exactly when it is an object or the content-type header of the request
\* is 'application/json', whatever media types the operation declares; for
\* an operation without an application/json body schema the body put there
\* gives no error: the errors are those of the input without it.
BodyAttachment ==
  (IsRequest /\ OnListed /\ HasResult) =>
    LET parse == IF OnlyJson(Target) /\ Unparsable(call.req.body)
                 THEN <<ParseError(call.req.body)>> ELSE <<>>
    IN /\ Attached <=>
            \/ TypeOf(call.req.requestBody) = "object"
            \/ Get(call.req.headers, "content-type") = Str("application/json")
       /\ Attached => parameters.props["requestBody"] = call.req.requestBody
       /\ (Attached /\ ~JsonBodySchema(Target)) =>
            /\ Len(ran) = 1
            /\ result.errors =
                 parse \o Validate(Registered[1], Without(parameters, {"requestBody"}))
            /\ \A i \in 1..Len(result.errors) :
                 result.errors[i].dataPath = <<>>
                 \/ Head(result.errors[i].dataPath) # "requestBody"

\* an object body was put into the input of an operation that declares
\* text/plain only, and the request was accepted
BodyAttachmentWitness ==
  /\ IsRequest /\ OnListed /\ HasResult
  /\ Target.requestBody.declared /\ ~JsonBodySchema(Target)
  /\ Attached /\ call.req.requestBody.t = "object"
  /\ Get(call.req.headers, "content-type") # Str("application/json")
  /\ result.valid

\* C17: for an operation the registry holds request validators for,
\* validateRequest returns a result whatever the Router parsed, absent
\* headers and a body that is not an object too.
RegisteredNeverFatal ==
  (/\ IsRequest /\ ~Unknown
   /\ RegistryKey(Target.operationId) \in DOMAIN requestValidators) =>
    HasResult

====
